---- MODULE Spec2Model ----
(***************************************************************************)
(* A model of the DotRoll API client: the ActionHandler mapping layer, the  *)
(* MockQueryHandler expectation queue it is tested against (DotRoll/api.py) *)
(* and the command line ArgumentParser.parse (DotRoll/cli.py).              *)
(*                                                                          *)
(* Python strings are TLA+ strings, concatenated with \o.  A value that is  *)
(* percent-encoded character by character (a domain name) is a sequence of  *)
(* one-character strings.  An exception is an outcome other than "ok"; the  *)
(* text an exception is built from is kept as the sequence of the pieces    *)
(* that the code concatenates.                                              *)
(***************************************************************************)
EXTENDS Naturals, Sequences, FiniteSets, TLC

VARIABLES
    expectations,   \* MockQueryHandler.expectations, the class-level list
    instances,      \* the MockQueryHandler objects constructed so far
    log,            \* history: the operations observed (the last one in Spec)
    parsed          \* the outcome of the last ArgumentParser.parse

vars == <<expectations, instances, log, parsed>>

\* The longest expectation list the model builds.
MaxQueue == 1

-----------------------------------------------------------------------------
(* Values *)

None == "<None>"

Instances == {"qh1", "qh2"}

Verbs == {"get", "delete", "post", "put"}

NoValue == [kind |-> "none", items |-> <<>>]

Expectation(expected_url, expected_query_type, expected_body, response_code, response_body) ==
    [expected_url |-> expected_url,
     expected_query_type |-> expected_query_type,
     expected_body |-> expected_body,
     response_code |-> response_code,
     response_body |-> response_body]

\* json.loads on the stub bodies the model uses; any other text is not JSON.
json_loads(s) ==
    CASE s = "{\"new\": 1}" ->
           [ok |-> TRUE, value |-> [kind |-> "dict", items |-> << <<"new", "1">> >>]]
      [] s = "{\"status\": \"available\"}" ->
           [ok |-> TRUE, value |-> [kind |-> "dict", items |-> << <<"status", "available">> >>]]
      [] s = "[\"janoszen.hu\"]" ->
           [ok |-> TRUE, value |-> [kind |-> "list", items |-> << <<"janoszen.hu">> >>]]
      [] OTHER -> [ok |-> FALSE, value |-> NoValue]

\* The characters urllib.quote leaves alone (letters, digits, "_.-" and "/").
SafeChars == {"x", "y", "h", "u", ".", "-", "_", "/"}

QuoteChar(c) ==
    IF c \in SafeChars THEN c
    ELSE CASE c = " " -> "%20"
           [] c = "%" -> "%25"
           [] c = "?" -> "%3F"
           [] c = "&" -> "%26"

RECURSIVE quote(_)
quote(cs) == IF cs = <<>> THEN "" ELSE QuoteChar(Head(cs)) \o quote(Tail(cs))

\* QueryHandler.encode: urllib.quote(str(rawstring))
encode(rawstring) == quote(rawstring)

-----------------------------------------------------------------------------
(* MockQueryHandler: pure functions from the list and the arguments to the  *)
(* list afterwards and the outcome.                                         *)

\* self.expectations of instance qh: no instance attribute is ever assigned,
\* so the lookup finds the class attribute.
Expectations(qh) == expectations

\* get_expectation that pops the end of the list: self.expectations.pop()
get_expectation_last(q) ==
    IF q = <<>>
    THEN [raised |-> "IndexError", exp |-> <<>>, queue |-> q]
    ELSE [raised |-> "none", exp |-> <<q[Len(q)]>>,
          queue |-> SubSeq(q, 1, Len(q) - 1)]

\* get_expectation that reports an exhausted list as a failed expectation
get_expectation_exhausted(q) ==
    IF q = <<>>
    THEN [raised |-> "ExpectationFailed", exp |-> <<>>, queue |-> q]
    ELSE [raised |-> "none", exp |-> <<Head(q)>>, queue |-> Tail(q)]

\* get_expectation that reads the head and leaves it: self.expectations[0]
get_expectation_peek(q) ==
    IF q = <<>>
    THEN [raised |-> "IndexError", exp |-> <<>>, queue |-> q]
    ELSE [raised |-> "none", exp |-> <<Head(q)>>, queue |-> q]

\* MockQueryHandler.get_expectation: self.expectations.pop(0)
get_expectation(q) ==
    IF q = <<>>
    THEN [raised |-> "IndexError", exp |-> <<>>, queue |-> q]
    ELSE [raised |-> "none", exp |-> <<Head(q)>>, queue |-> Tail(q)]

Checked(queue, raised, message, code, body, exp) ==
    [queue |-> queue, raised |-> raised, message |-> message,
     code |-> code, body |-> body, exp |-> exp]

\* MockQueryHandler.check_expectation
check_expectation(q, url, query_type, body) ==
    LET got == get_expectation(q) IN
    IF got.raised # "none"
    THEN Checked(got.queue, got.raised, <<"pop from empty list">>, 0, "", <<>>)
    ELSE LET exp == got.exp[1] IN
         IF exp.expected_url # url
         THEN Checked(got.queue, "ExpectationFailed",
                      <<"Expected URL ", exp.expected_url, " , got ", url>>,
                      0, "", got.exp)
         ELSE IF exp.expected_query_type # query_type
         THEN Checked(got.queue, "ExpectationFailed",
                      <<"Expected ", exp.expected_query_type, " query, got ",
                        query_type, " query">>,
                      0, "", got.exp)
         ELSE IF exp.expected_body # body
         THEN \* 'Expected body: ' . exp[...]: attribute exp of a str
              Checked(got.queue, "AttributeError",
                      <<"'str' object has no attribute 'exp'">>, 0, "", got.exp)
         ELSE Checked(got.queue, "none", <<>>,
                      exp.response_code, exp.response_body, got.exp)

\* What one transport call leaves behind: the list afterwards, the outcome,
\* and the call as the transport saw it.
Reply(queue, verb, url, data, outcome, value, message, exp) ==
    [queue |-> queue, outcome |-> outcome, value |-> value, message |-> message,
     seen |-> <<[verb |-> verb, url |-> url, data |-> data, outcome |-> outcome,
                 value |-> value, message |-> message, exp |-> exp]>>]

\* raise QueryFailed(): __init__ requires a description, so the raise itself
\* fails with a TypeError.
RaiseQueryFailed(queue, verb, url, data, exp) ==
    Reply(queue, verb, url, data, "TypeError", NoValue,
          <<"__init__() takes exactly 2 arguments (1 given)">>, exp)

\* return json.loads(result['body'])
ReturnJson(queue, verb, url, data, body, exp) ==
    LET decoded == json_loads(body) IN
    IF decoded.ok
    THEN Reply(queue, verb, url, data, "ok", decoded.value, <<>>, exp)
    ELSE Reply(queue, verb, url, data, "ValueError", NoValue,
               <<"No JSON object could be decoded">>, exp)

\* MockQueryHandler.get
get(q, url) ==
    LET result == check_expectation(q, url, "get", "") IN
    IF result.raised # "none"
    THEN Reply(result.queue, "get", url, "", result.raised, NoValue,
               result.message, result.exp)
    ELSE IF result.code # 200
    THEN RaiseQueryFailed(result.queue, "get", url, "", result.exp)
    ELSE ReturnJson(result.queue, "get", url, "", result.body, result.exp)

\* MockQueryHandler.delete
delete(q, url) ==
    LET result == check_expectation(q, url, "delete", "") IN
    IF result.raised # "none"
    THEN Reply(result.queue, "delete", url, "", result.raised, NoValue,
               result.message, result.exp)
    ELSE IF result.code # 200
    THEN RaiseQueryFailed(result.queue, "delete", url, "", result.exp)
    ELSE \* json.loads(result.body): attribute body of a dict
         Reply(result.queue, "delete", url, "", "AttributeError", NoValue,
               <<"'dict' object has no attribute 'body'">>, result.exp)

\* MockQueryHandler.post: the expectation is checked against the literal
\* 'data', not against the argument.
post(q, url, data) ==
    LET result == check_expectation(q, url, "post", "data") IN
    IF result.raised # "none"
    THEN Reply(result.queue, "post", url, data, result.raised, NoValue,
               result.message, result.exp)
    ELSE IF result.code # 201
    THEN RaiseQueryFailed(result.queue, "post", url, data, result.exp)
    ELSE ReturnJson(result.queue, "post", url, data, result.body, result.exp)

\* MockQueryHandler.put: as post, with three accepted codes.
put(q, url, data) ==
    LET result == check_expectation(q, url, "put", "data") IN
    IF result.raised # "none"
    THEN Reply(result.queue, "put", url, data, result.raised, NoValue,
               result.message, result.exp)
    ELSE IF result.code # 200 /\ result.code # 201 /\ result.code # 204
    THEN RaiseQueryFailed(result.queue, "put", url, data, result.exp)
    ELSE ReturnJson(result.queue, "put", url, data, result.body, result.exp)

-----------------------------------------------------------------------------
(* ActionHandler over a mock transport whose list is q *)

get_domain_prices(q, currency) == get(q, "domain/prices/" \o currency)

\* get_hosting_prices with the path of the domain price list
get_hosting_prices_domain_path(q, currency) == get(q, "domain/prices/" \o currency)

get_hosting_prices(q, currency) == get(q, "hosting/prices/" \o currency)

get_vps_prices(q, currency) == get(q, "vps/prices/" \o currency)

get_domain_availability(q, domainname) ==
    get(q, "domain/search/" \o encode(domainname))

\* get_domain_list that asks the transport again after a failure
get_domain_list_retry(q) ==
    LET first == get(q, "domain/list") IN
    IF first.outcome = "ok" THEN first
    ELSE LET second == get(first.queue, "domain/list") IN
         [second EXCEPT !.seen = first.seen \o second.seen]

get_domain_list(q) == get(q, "domain/list")

-----------------------------------------------------------------------------
(* Inputs *)

Urls == {"domain/list", "domain/prices/HUF", "hosting/prices/HUF",
         "vps/prices/HUF", "domain/search/x%20y"}

\* The expected bodies queued for a verb: the body the mock compares with
\* ('' for get and delete, 'data' for post and put) and another one.
Bodies(verb) == IF verb \in {"get", "delete"} THEN {"", "x"} ELSE {"data", "x"}

Codes == {200, 201, 204, 500}

\* The expectations a test may queue: a stub of every ActionHandler path, and
\* on one path every verb, expected body and status code, and a stub body
\* that is not JSON.
Stubs ==
    {Expectation(u, "get", "", 200, "{\"new\": 1}") : u \in Urls}
    \cup UNION {{Expectation("domain/list", v, b, c, "[\"janoszen.hu\"]") :
                    b \in Bodies(v), c \in Codes} : v \in Verbs}
    \cup {Expectation("domain/list", "get", "", 200, "oops")}

CallUrls == {"domain/list", "domain/prices/HUF"}

Datas == {"data", "x"}

Currencies == {"HUF", "EUR"}

DomainNames == {<<"x", " ", "y">>, <<"x", ".", "h", "u">>}

-----------------------------------------------------------------------------
(* History *)

\* One observed operation: what was called, on which object, the list before
\* it, and what came back.
Event(op, qh, currency, domainname, url, data, added, r) ==
    [op |-> op, inst |-> qh, pre |-> expectations,
     currency |-> currency, domainname |-> domainname, url |-> url,
     data |-> data, added |-> added,
     outcome |-> r.outcome, value |-> r.value, message |-> r.message,
     seen |-> r.seen]

Done(queue) ==
    [queue |-> queue, outcome |-> "ok", value |-> NoValue, message |-> <<>>,
     seen |-> <<>>]

Observe(ev, keep) == log' = IF keep THEN Append(log, ev) ELSE <<ev>>

IsEvent == Len(log) > 0

last == log[Len(log)]

TransportOps == {"get", "delete", "post", "put"}

ActionOps == {"get_domain_prices", "get_hosting_prices", "get_vps_prices",
              "get_domain_availability", "get_domain_list"}

-----------------------------------------------------------------------------
(* Operations *)

\* MockQueryHandler(...): QueryHandler.__init__ stores the endpoint and the
\* credentials and leaves expectations alone.
Construct(qh, keep) ==
    /\ qh \notin instances
    /\ instances' = instances \cup {qh}
    /\ UNCHANGED <<expectations, parsed>>
    /\ Observe(Event("construct", qh, "", <<>>, "", "", <<>>, Done(expectations)), keep)

\* qh.add_expectation(...)
add_expectation(qh, e, keep) ==
    /\ qh \in instances
    /\ expectations' = Append(Expectations(qh), e)
    /\ UNCHANGED <<instances, parsed>>
    /\ Observe(Event("add_expectation", qh, "", <<>>, "", "", <<e>>,
                     Done(expectations')), keep)

\* A call op on qh whose outcome is r.
Perform(op, qh, currency, domainname, url, data, r, keep) ==
    /\ qh \in instances
    /\ expectations' = r.queue
    /\ UNCHANGED <<instances, parsed>>
    /\ Observe(Event(op, qh, currency, domainname, url, data, <<>>, r), keep)

CallGet(qh, url, keep) ==
    Perform("get", qh, "", <<>>, url, "", get(Expectations(qh), url), keep)

CallDelete(qh, url, keep) ==
    Perform("delete", qh, "", <<>>, url, "", delete(Expectations(qh), url), keep)

CallPost(qh, url, data, keep) ==
    Perform("post", qh, "", <<>>, url, data, post(Expectations(qh), url, data), keep)

CallPut(qh, url, data, keep) ==
    Perform("put", qh, "", <<>>, url, data, put(Expectations(qh), url, data), keep)

\* ActionHandler(qh).get_domain_prices(currency), and the other operations
GetDomainPrices(qh, currency, keep) ==
    Perform("get_domain_prices", qh, currency, <<>>, "", "",
            get_domain_prices(Expectations(qh), currency), keep)

GetHostingPrices(qh, currency, keep) ==
    Perform("get_hosting_prices", qh, currency, <<>>, "", "",
            get_hosting_prices(Expectations(qh), currency), keep)

GetVpsPrices(qh, currency, keep) ==
    Perform("get_vps_prices", qh, currency, <<>>, "", "",
            get_vps_prices(Expectations(qh), currency), keep)

GetDomainAvailability(qh, domainname, keep) ==
    Perform("get_domain_availability", qh, "", domainname, "", "",
            get_domain_availability(Expectations(qh), domainname), keep)

GetDomainList(qh, keep) ==
    Perform("get_domain_list", qh, "", <<>>, "", "",
            get_domain_list(Expectations(qh)), keep)

-----------------------------------------------------------------------------
(* The mock and the ActionHandler under any sequence of operations *)

NotParsed == [called |-> FALSE]

Init ==
    /\ expectations = <<>>
    /\ instances = {}
    /\ log = <<>>
    /\ parsed = NotParsed

Next ==
    \/ \E qh \in Instances : Construct(qh, FALSE)
    \/ \E qh \in Instances, e \in Stubs :
          Len(expectations) < MaxQueue /\ add_expectation(qh, e, FALSE)
    \/ \E qh \in Instances, url \in CallUrls : CallGet(qh, url, FALSE)
    \/ \E qh \in Instances, url \in CallUrls : CallDelete(qh, url, FALSE)
    \/ \E qh \in Instances, url \in CallUrls, data \in Datas :
          CallPost(qh, url, data, FALSE)
    \/ \E qh \in Instances, url \in CallUrls, data \in Datas :
          CallPut(qh, url, data, FALSE)
    \/ \E qh \in Instances, currency \in Currencies :
          GetDomainPrices(qh, currency, FALSE)
    \/ \E qh \in Instances, currency \in Currencies :
          GetHostingPrices(qh, currency, FALSE)
    \/ \E qh \in Instances, currency \in Currencies :
          GetVpsPrices(qh, currency, FALSE)
    \/ \E qh \in Instances, domainname \in DomainNames :
          GetDomainAvailability(qh, domainname, FALSE)
    \/ \E qh \in Instances : GetDomainList(qh, FALSE)

Spec == Init /\ [][Next]_vars

-----------------------------------------------------------------------------
(* Properties of the ActionHandler and of one mock transport call *)

IsTransportCall == IsEvent /\ last.op \in TransportOps
IsActionCall == IsEvent /\ last.op \in ActionOps

\* The path and verb table of the ActionHandler operations.
TablePath(ev) ==
    CASE ev.op = "get_domain_prices" -> "domain/prices/" \o ev.currency
      [] ev.op = "get_hosting_prices" -> "hosting/prices/" \o ev.currency
      [] ev.op = "get_vps_prices" -> "vps/prices/" \o ev.currency
      [] ev.op = "get_domain_availability" -> "domain/search/" \o quote(ev.domainname)
      [] ev.op = "get_domain_list" -> "domain/list"

\* The status codes a verb accepts.
Accepted(verb) ==
    CASE verb \in {"get", "delete"} -> {200}
      [] verb = "post" -> {201}
      [] verb = "put" -> {200, 201, 204}

\* The body a transport call passes: the data of post and put, '' otherwise.
BodyPassed(ev) == IF ev.op \in {"post", "put"} THEN ev.data ELSE ""

\* The call's path, verb and body equal those the expectation expects.
CallMatches(ev, exp) ==
    /\ exp.expected_url = ev.url
    /\ exp.expected_query_type = ev.op
    /\ exp.expected_body = BodyPassed(ev)

Names(message, x) == \E k \in 1..Len(message) : message[k] = x

C3_QueueOwnedByInstance ==
    IsEvent =>
        /\ last.op \in {"add_expectation"} \cup TransportOps \cup ActionOps =>
              \A qh \in instances \ {last.inst} : Expectations(qh) = last.pre
        /\ last.op = "construct" => Expectations(last.inst) = <<>>

\* C4: a transport call that matches the head expectation, whose stub status
\* code is outside the accepted set of the verb, fails with QueryFailed.
C4_RejectedStatusRaisesQueryFailed ==
    (/\ IsTransportCall
     /\ last.pre # <<>>
     /\ CallMatches(last, Head(last.pre))
     /\ Head(last.pre).response_code \notin Accepted(last.op))
    => last.outcome = "QueryFailed"

\* C5: a transport call that differs from the head expectation in path, verb
\* or body fails with ExpectationFailed, and the message names the expected
\* and the actual value of what differs.
C5_MismatchRaisesExpectationFailed ==
    (IsTransportCall /\ last.pre # <<>>) =>
        LET exp == Head(last.pre) IN
        /\ exp.expected_url # last.url =>
              /\ last.outcome = "ExpectationFailed"
              /\ Names(last.message, exp.expected_url)
              /\ Names(last.message, last.url)
        /\ (exp.expected_url = last.url /\ exp.expected_query_type # last.op) =>
              /\ last.outcome = "ExpectationFailed"
              /\ Names(last.message, exp.expected_query_type)
              /\ Names(last.message, last.op)
        /\ (/\ exp.expected_url = last.url
            /\ exp.expected_query_type = last.op
            /\ exp.expected_body # BodyPassed(last)) =>
              /\ last.outcome = "ExpectationFailed"
              /\ Names(last.message, exp.expected_body)
              /\ Names(last.message, BodyPassed(last))

\* C6: a transport call of any verb whose path, verb and body equal the head
\* expectation's, with an accepted stub status code and a JSON stub body,
\* returns the decoded stub body.
C6_MatchReturnsDecodedBody ==
    (/\ IsTransportCall
     /\ last.pre # <<>>
     /\ CallMatches(last, Head(last.pre))
     /\ Head(last.pre).response_code \in Accepted(last.op)
     /\ json_loads(Head(last.pre).response_body).ok)
    => /\ last.outcome = "ok"
       /\ last.value = json_loads(Head(last.pre).response_body).value

\* C7 as claimed: a transport call on an empty list fails with
\* ExpectationFailed and leaves the list empty.
C7_EmptyRaisesExpectationFailed ==
    (IsEvent /\ last.op \in TransportOps \cup ActionOps /\ last.pre = <<>>) =>
        /\ last.outcome = "ExpectationFailed"
        /\ expectations = <<>>

\* C7: a transport call on an empty list returns no result: it fails with
\* the IndexError of the pop, and the list is still empty afterwards.
C7_EmptyRaisesIndexError ==
    (IsEvent /\ last.op \in TransportOps \cup ActionOps /\ last.pre = <<>>) =>
        /\ last.outcome = "IndexError"
        /\ last.value = NoValue
        /\ expectations = <<>>

\* A post on the empty list has failed with IndexError.
C7_Witness ==
    /\ IsTransportCall
    /\ last.op = "post"
    /\ last.pre = <<>>
    /\ last.outcome = "IndexError"
    /\ expectations = <<>>

\* C8: when the transport call of an ActionHandler operation fails, the
\* operation fails with the same error and the same description, and the
\* transport has seen exactly one call.
C8_FailurePropagatesOnce ==
    (IsActionCall /\ \E k \in 1..Len(last.seen) : last.seen[k].outcome # "ok") =>
        /\ Len(last.seen) = 1
        /\ last.outcome = last.seen[1].outcome
        /\ last.message = last.seen[1].message
        /\ last.value = NoValue

\* get_domain_list has failed on a stub of another path: one call seen, the
\* ExpectationFailed of the transport returned.
C8_Witness ==
    /\ IsActionCall
    /\ last.op = "get_domain_list"
    /\ last.pre # <<>>
    /\ Len(last.seen) = 1
    /\ last.seen[1].outcome = "ExpectationFailed"
    /\ last.outcome = "ExpectationFailed"

-----------------------------------------------------------------------------
(* A test case: one mock, two expectations queued on the empty list, then   *)
(* two calls, each the call that matches one of the two.                    *)

\* The transport call whose path, verb and body are those e expects.
CallMatching(qh, e, keep) ==
    \/ /\ e.expected_query_type = "get"
       /\ e.expected_body = ""
       /\ CallGet(qh, e.expected_url, keep)
    \/ /\ e.expected_query_type = "delete"
       /\ e.expected_body = ""
       /\ CallDelete(qh, e.expected_url, keep)
    \/ /\ e.expected_query_type = "post"
       /\ CallPost(qh, e.expected_url, e.expected_body, keep)
    \/ /\ e.expected_query_type = "put"
       /\ CallPut(qh, e.expected_url, e.expected_body, keep)

NextFifo ==
    \/ Len(log) = 0 /\ \E qh \in Instances : Construct(qh, TRUE)
    \/ Len(log) \in {1, 2} /\ \E e \in Stubs : add_expectation(log[1].inst, e, TRUE)
    \/ Len(log) \in {3, 4} /\ \E e \in {log[2].added[1], log[3].added[1]} :
          CallMatching(log[1].inst, e, TRUE)

SpecFifo == Init /\ [][NextFifo]_vars

\* The first and the second expectation queued, and the calls issued.
FifoA == log[2].added[1]
FifoB == log[3].added[1]

\* An expectation the mock serves when the matching call reaches it: the
\* expected body is the one the verb compares with, the status code is one
\* the verb accepts, the stub body is JSON, and the verb is not delete.
Served(e) ==
    /\ \/ e.expected_query_type = "get" /\ e.expected_body = ""
       \/ e.expected_query_type \in {"post", "put"} /\ e.expected_body = "data"
    /\ e.response_code \in Accepted(e.expected_query_type)
    /\ json_loads(e.response_body).ok

AddsIn(h) == {k \in 1..Len(h) : h[k].op = "add_expectation"}
CallsIn(h) == {k \in 1..Len(h) : h[k].op \in TransportOps \cup ActionOps}

\* C11: a transport call on a non-empty list removes exactly the head and
\* leaves the other records as they were, in order, whatever its outcome;
\* add_expectation appends its record at the tail and changes nothing else;
\* and once n expectations were queued on the empty list and n calls were
\* issued after them, the list is empty.
C11_CallPopsHeadAddAppends ==
    IsEvent =>
        /\ (last.op \in TransportOps \cup ActionOps /\ last.pre # <<>>) =>
              /\ expectations = Tail(last.pre)
              /\ Len(last.seen) = 1
              /\ last.seen[1].exp = <<Head(last.pre)>>
        /\ last.op = "add_expectation" =>
              /\ Len(expectations) = Len(last.pre) + 1
              /\ expectations = Append(last.pre, last.added[1])
        /\ (/\ log[1].pre = <<>>
            /\ Cardinality(AddsIn(log)) = Cardinality(CallsIn(log))
            /\ \A a \in AddsIn(log), c \in CallsIn(log) : a < c) =>
              expectations = <<>>

\* Two expectations were queued; the first call did not match the head and
\* failed, the second matched what was left and succeeded; the first call
\* left exactly the second record, and the list is empty now.
C11_Witness ==
    /\ Len(log) = 5
    /\ Len(log[4].pre) = 2
    /\ log[4].outcome = "ExpectationFailed"
    /\ log[5].pre = <<FifoB>>
    /\ log[5].outcome = "ok"
    /\ expectations = <<>>

-----------------------------------------------------------------------------
(* ArgumentParser.parse *)

actionargs == <<"getdomainprices", "gethostingprices", "getvpsprices",
                "getdomainavailability", "getdomainlist">>

ActionFlags == {actionargs[k] : k \in 1..Len(actionargs)}

PriceFlags == {"getdomainprices", "gethostingprices", "getvpsprices"}

\* The values of a fresh optparse result for the options parse reads: the
\* store_true flags that were given, and the two string options.
NoOptions == [flags |-> {}, currency |-> None, domainname |-> None]

\* self.parser.parse_args(args) on the options the model passes
RECURSIVE parse_args(_, _)
parse_args(args, options) ==
    IF args = <<>> THEN options
    ELSE IF Head(args) = "--currency"
    THEN parse_args(Tail(Tail(args)), [options EXCEPT !.currency = args[2]])
    ELSE IF Head(args) = "--domainname"
    THEN parse_args(Tail(Tail(args)), [options EXCEPT !.domainname = args[2]])
    ELSE IF \E f \in ActionFlags : Head(args) = "--" \o f
    THEN parse_args(Tail(args),
                    [options EXCEPT !.flags =
                        @ \cup {f \in ActionFlags : Head(args) = "--" \o f}])
    ELSE parse_args(Tail(args), options)

\* getattr(options, i) of an action flag: True when given, None otherwise
getattr(options, i) == i \in options.flags

\* incompatible that compares each action flag with the next one only
incompatible_adjacent(options) ==
    {p \in (1..Len(actionargs)) \X (1..Len(actionargs)) :
        /\ p[2] = p[1] + 1
        /\ getattr(options, actionargs[p[1]])
        /\ getattr(options, actionargs[p[2]])}

\* The pairs (i, j) on which the double loop over actionargs raises.
incompatible(options) ==
    {p \in (1..Len(actionargs)) \X (1..Len(actionargs)) :
        /\ p[1] # p[2]
        /\ getattr(options, actionargs[p[1]])
        /\ getattr(options, actionargs[p[2]])}

\* The first pair in the order of the loops.
FirstPair(pairs) ==
    CHOOSE p \in pairs :
        \A r \in pairs : p[1] < r[1] \/ (p[1] = r[1] /\ p[2] <= r[2])

\* needs_currency that leaves the VPS price list out
needs_currency_no_vps(options) ==
    getattr(options, "getdomainprices") \/ getattr(options, "gethostingprices")

\* options.getdomainprices or options.gethostingprices or options.getvpsprices
needs_currency(options) ==
    \/ getattr(options, "getdomainprices")
    \/ getattr(options, "gethostingprices")
    \/ getattr(options, "getvpsprices")

\* func after the last loop: the last action flag that is set, or None
selected(options) ==
    LET set == {k \in 1..Len(actionargs) : getattr(options, actionargs[k])} IN
    IF set = {} THEN None
    ELSE actionargs[CHOOSE k \in set : \A m \in set : m <= k]

Parsed(raised, message, func, options) ==
    [raised |-> raised, message |-> message, func |-> func, options |-> options]

\* ArgumentParser.parse
parse(args) ==
    IF Len(args) < 2
    THEN Parsed("ArgumentError", <<"Incorrect number of arguments">>, None, NoOptions)
    ELSE LET options == parse_args(args, NoOptions)
             pairs == incompatible(options) IN
         IF pairs # {}
         THEN Parsed("ArgumentError",
                     <<"Only one action can be called at a time. --",
                       actionargs[FirstPair(pairs)[1]], " and --",
                       actionargs[FirstPair(pairs)[2]], " are incompatible.">>,
                     None, options)
         ELSE IF needs_currency(options)
                 /\ options.currency \notin {"HUF", "EUR", "USD"}
         THEN Parsed("ArgumentError",
                     <<"A valid currency code is required for pricelist download">>,
                     None, options)
         ELSE Parsed("none", <<>>, selected(options), options)

\* The command line that gives the flags, in the order of given, and the
\* two options when they are not None.
RECURSIVE FlagArgs(_)
FlagArgs(given) ==
    IF given = <<>> THEN <<>> ELSE <<"--" \o Head(given)>> \o FlagArgs(Tail(given))

CommandLine(given, currency, domainname) ==
    <<"dotrollcli">> \o FlagArgs(given)
    \o (IF currency = None THEN <<>> ELSE <<"--currency", currency>>)
    \o (IF domainname = None THEN <<>> ELSE <<"--domainname", domainname>>)

\* The flag lists the model passes: at most three flags, no flag twice.
MaxFlags == 3

FlagLists ==
    UNION {{g \in [1..n -> ActionFlags] : \A a, b \in 1..n : a # b => g[a] # g[b]} :
             n \in 0..MaxFlags}

CurrencyInputs == {None, "HUF", "EUR", "USD", "GBP"}

DomainNameInputs == {None, "x.hu"}

Parse(given, currency, domainname) ==
    /\ parsed' = [called |-> TRUE,
                  given |-> {given[k] : k \in 1..Len(given)},
                  currency |-> currency,
                  args |-> CommandLine(given, currency, domainname),
                  result |-> parse(CommandLine(given, currency, domainname))]
    /\ UNCHANGED <<expectations, instances, log>>

NextCli ==
    \E given \in FlagLists, currency \in CurrencyInputs,
       domainname \in DomainNameInputs : Parse(given, currency, domainname)

SpecCli == Init /\ [][NextCli]_vars

ValidCurrency(c) == c \in {"HUF", "EUR", "USD"}

\* C9: parse raises ArgumentError when two or more distinct action flags are
\* given; when exactly one is given (with a valid currency if it is a price
\* action) it raises nothing and returns the name of that flag.
C9_ActionsMutuallyExclusive ==
    parsed.called =>
        /\ Cardinality(parsed.given) >= 2 => parsed.result.raised = "ArgumentError"
        /\ (/\ Cardinality(parsed.given) = 1
            /\ (parsed.given \subseteq PriceFlags => ValidCurrency(parsed.currency))) =>
              /\ parsed.result.raised = "none"
              /\ parsed.given = {parsed.result.func}

\* --getdomainprices --getvpsprices with a valid currency was refused.
C9_Witness ==
    /\ parsed.called
    /\ parsed.given = {"getdomainprices", "getvpsprices"}
    /\ parsed.currency = "HUF"
    /\ parsed.result.raised = "ArgumentError"
    /\ Names(parsed.result.message, "getdomainprices")
    /\ Names(parsed.result.message, "getvpsprices")

\* C10: with exactly one action given, a price action is refused with
\* ArgumentError exactly when the currency is absent or not HUF, EUR or USD,
\* and getdomainavailability and getdomainlist are accepted whatever the
\* currency option is.
C10_CurrencyRequiredForPrices ==
    (parsed.called /\ Cardinality(parsed.given) = 1) =>
        /\ parsed.given \subseteq PriceFlags =>
              (parsed.result.raised = "ArgumentError" <=> ~ValidCurrency(parsed.currency))
        /\ parsed.given \subseteq PriceFlags =>
              (parsed.result.raised = "none" <=> ValidCurrency(parsed.currency))
        /\ parsed.given \cap PriceFlags = {} => parsed.result.raised = "none"

\* --getvpsprices --currency GBP was refused for its currency.
C10_Witness ==
    /\ parsed.called
    /\ parsed.given = {"getvpsprices"}
    /\ parsed.currency = "GBP"
    /\ parsed.result.raised = "ArgumentError"
    /\ parsed.result.message =
          <<"A valid currency code is required for pricelist download">>

====
